---- MODULE Spec2Model ----
(***************************************************************************)
(* A model of src/importer.py: the incremental import of notification logs *)
(* (daily CSV files under <log_root>/YYYY/MM/) into a cashbook of markdown *)
(* documents.                                                              *)
(*                                                                         *)
(* Text is modelled character by character: a Python str is a sequence of *)
(* one-character values.  ASCII characters stand for themselves; a Hangul  *)
(* syllable is one character written in romanised form ("ip" for U+C785,   *)
(* "geum" U+AE08, "chul" U+CD9C, "won" U+C6D0, "gye" U+ACC4, "jwa" U+C88C, *)
(* "jan" U+C794, "aek" U+C561, "ga" U+AC00, "ge" U+AC8C, "go" U+ACE0).     *)
(* Log paths are kept relative to notimon_log_path, as lists of path        *)
(* components.                                                             *)
(***************************************************************************)
EXTENDS Integers, Sequences, FiniteSets, TLC

VARIABLES
    markerFile,   \* content of <cash_book_path>/marker.md, or NoFile
    logDirs,      \* directories under notimon_log_path (component lists)
    logs,         \* files under notimon_log_path: component list -> CSV rows
    book,         \* documents under cash_book_path: path -> front matter
    bookDirs,     \* directories made under cash_book_path
    pc,           \* position of the run: start, read, import, done, *_failed
    runs,         \* number of runs started so far
    marker,       \* Marker of the current run: [year, month, day]
    entered,      \* directories _deep_scan has descended into in this run
    files,        \* the scanner's result after files.sort
    idx,          \* NotimonLogRead.read: index of the next entry
    found,        \* NotimonLogRead._found: ordered <<[key, rows]>>
    di,           \* import loop: index into found
    ri,           \* import loop: index into found[di].rows
    handled,      \* rows handed to Importer in this run, with their outcome
    sawMissing,   \* history: read reached an entry whose file did not exist
    bookAtStart,  \* history: book when the current run started
    lastDone      \* history: logs and book at the last completed run

vars == <<markerFile, logDirs, logs, book, bookDirs, pc, runs, marker, entered,
          files, idx, found, di, ri, handled, sawMissing, bookAtStart, lastDone>>

---------------------------------------------------------------------------
(* Bounds of the model *)

MaxTreeFiles == 2
MaxLogFiles == 2
MaxRows == 2
MaxRuns == 2
MaxSourceTokens == 2

---------------------------------------------------------------------------
(* Python str and list primitives *)

Digits == {"0", "1", "2", "3", "4", "5", "6", "7", "8", "9"}

DigitVal(c) ==
    CASE c = "0" -> 0 [] c = "1" -> 1 [] c = "2" -> 2 [] c = "3" -> 3
      [] c = "4" -> 4 [] c = "5" -> 5 [] c = "6" -> 6 [] c = "7" -> 7
      [] c = "8" -> 8 [] c = "9" -> 9

DigitChar(d) ==
    CASE d = 0 -> "0" [] d = 1 -> "1" [] d = 2 -> "2" [] d = 3 -> "3"
      [] d = 4 -> "4" [] d = 5 -> "5" [] d = 6 -> "6" [] d = 7 -> "7"
      [] d = 8 -> "8" [] d = 9 -> "9"

\* Code points of the characters that occur in log paths (str comparison).
CharOrd(c) ==
    CASE c = " " -> 32 [] c = "-" -> 45 [] c = "." -> 46 [] c = "/" -> 47
      [] c \in Digits -> 48 + DigitVal(c)
      [] c = "c" -> 99 [] c = "s" -> 115 [] c = "t" -> 116
      [] c = "v" -> 118 [] c = "x" -> 120

AllIn(s, S) == \A i \in 1..Len(s) : s[i] \in S

\* s[lo:hi] with lo >= 0 and any hi (a negative hi counts from the end).
PySlice(s, lo, hi) ==
    LET n == Len(s)
        h0 == IF hi < 0 THEN n + hi ELSE hi
        h == IF h0 > n THEN n ELSE IF h0 < 0 THEN 0 ELSE h0
    IN  IF lo >= h THEN <<>> ELSE SubSeq(s, lo + 1, h)

\* str.replace(old, new) for a one-character old.
RECURSIVE Replace(_, _, _)
Replace(s, old, new) ==
    IF s = <<>> THEN <<>>
    ELSE (IF Head(s) = old THEN new ELSE <<Head(s)>>) \o Replace(Tail(s), old, new)

\* str.split(sep) for a one-character sep: never empty, '' gives [''].
RECURSIVE SplitAcc(_, _, _)
SplitAcc(s, sepc, cur) ==
    IF s = <<>> THEN <<cur>>
    ELSE IF Head(s) = sepc THEN <<cur>> \o SplitAcc(Tail(s), sepc, <<>>)
    ELSE SplitAcc(Tail(s), sepc, Append(cur, Head(s)))

Split(s, sepc) == SplitAcc(s, sepc, <<>>)

\* sepc.join(parts)
RECURSIVE Join(_, _)
Join(parts, sepc) ==
    IF parts = <<>> THEN <<>>
    ELSE IF Len(parts) = 1 THEN parts[1]
    ELSE parts[1] \o <<sepc>> \o Join(Tail(parts), sepc)

\* list.reverse()
Reverse(s) == [i \in 1..Len(s) |-> s[Len(s) + 1 - i]]

\* int(s) for a string of decimal digits; int('') raises ValueError.
RECURSIVE DigitsValue(_)
DigitsValue(s) ==
    IF s = <<>> THEN 0
    ELSE 10 * DigitsValue(SubSeq(s, 1, Len(s) - 1)) + DigitVal(s[Len(s)])

IntRaises(s) == s = <<>> \/ ~AllIn(s, Digits)

\* format of an int in an f-string: decimal, '-' for a negative number.
RECURSIVE NatStr(_)
NatStr(n) ==
    IF n < 10 THEN <<DigitChar(n)>>
    ELSE Append(NatStr(n \div 10), DigitChar(n % 10))

IntStr(n) == IF n < 0 THEN <<"-">> \o NatStr(0 - n) ELSE NatStr(n)

\* os.sep
sep == "/"

\* os.path.join(a, b)
PathJoin(a, b) ==
    IF b # <<>> /\ b[1] = sep THEN b
    ELSE IF a = <<>> \/ a[Len(a)] = sep THEN a \o b
    ELSE a \o <<sep>> \o b

\* os.path.dirname(p): p up to its last separator
RECURSIVE Dirname(_)
Dirname(p) ==
    IF p = <<>> THEN <<>>
    ELSE IF p[Len(p)] = sep
         THEN (IF Len(p) = 1 THEN p ELSE SubSeq(p, 1, Len(p) - 1))
    ELSE Dirname(SubSeq(p, 1, Len(p) - 1))

---------------------------------------------------------------------------
(* Marker *)

\* marker.md: absent, or present with its content
NoFile == [exists |-> FALSE, content |-> <<>>]

File(c) == [exists |-> TRUE, content |-> c]

Whitespace == {" ", "\n"}

\* str.strip()
RECURSIVE LStrip(_)
LStrip(s) ==
    IF s # <<>> /\ Head(s) \in Whitespace THEN LStrip(Tail(s)) ELSE s

Strip(s) == Reverse(LStrip(Reverse(LStrip(s))))

\* Marker.expr: ^(\d{4})-(\d{2})-(\d{2})$
MarkerExprMatch(s) ==
    /\ Len(s) = 10
    /\ AllIn(SubSeq(s, 1, 4), Digits) /\ s[5] = "-"
    /\ AllIn(SubSeq(s, 6, 7), Digits) /\ s[8] = "-"
    /\ AllIn(SubSeq(s, 9, 10), Digits)

\* Marker.__init__: the marker of marker.md, (0, 0, 0) when the file is
\* absent or its stripped content is not a date.
Marker(file) ==
    IF ~file.exists THEN [year |-> 0, month |-> 0, day |-> 0]
    ELSE LET s == Strip(file.content)
         IN  IF MarkerExprMatch(s)
             THEN [year  |-> DigitsValue(SubSeq(s, 1, 4)),
                   month |-> DigitsValue(SubSeq(s, 6, 7)),
                   day   |-> DigitsValue(SubSeq(s, 9, 10))]
             ELSE [year |-> 0, month |-> 0, day |-> 0]

---------------------------------------------------------------------------
(* NotimonLogScan.  An entry of the log tree is the list of its path        *)
(* components below notimon_log_path; its DirEntry.name is the last one.    *)

\* os.path.relpath(entry.path, self._notimon_log_path)
RelPath(comps) == Join(comps, sep)

EntryName(comps) == comps[Len(comps)]

\* self._dir_expr: ^\d{4}(?:/\d{2})?$
DirExprMatch(p) ==
    \/ Len(p) = 4 /\ AllIn(p, Digits)
    \/ /\ Len(p) = 7
       /\ AllIn(SubSeq(p, 1, 4), Digits) /\ p[5] = sep
       /\ AllIn(SubSeq(p, 6, 7), Digits)

\* self._file_expr: ^\d{4}/\d{2}/\d{4}-\d{2}-\d{2}\.csv$
FileExprMatch(p) ==
    /\ Len(p) = 22
    /\ AllIn(SubSeq(p, 1, 4), Digits) /\ p[5] = sep
    /\ AllIn(SubSeq(p, 6, 7), Digits) /\ p[8] = sep
    /\ AllIn(SubSeq(p, 9, 12), Digits) /\ p[13] = "-"
    /\ AllIn(SubSeq(p, 14, 15), Digits) /\ p[16] = "-"
    /\ AllIn(SubSeq(p, 17, 18), Digits)
    /\ SubSeq(p, 19, 22) = <<".", "c", "s", "v">>

\* A mutation of _is_year_month_dir: the month compared with > .
IsYearMonthDirStrict(comps, depth, mk) ==
    IF depth > 2 THEN FALSE
    ELSE LET p == RelPath(comps) IN
         IF ~DirExprMatch(p) THEN FALSE
         ELSE LET parts == Split(p, sep)
                  dirs == [i \in 1..Len(parts) |-> DigitsValue(parts[i])]
              IN  CASE Len(dirs) = 1 -> dirs[1] >= mk.year
                    [] Len(dirs) = 2 ->
                         \/ dirs[1] > mk.year
                         \/ dirs[1] = mk.year /\ dirs[2] > mk.month
                    [] OTHER -> FALSE

\* NotimonLogScan._is_year_month_dir
IsYearMonthDir(comps, depth, mk) ==
    IF depth > 2 THEN FALSE
    ELSE LET p == RelPath(comps) IN
         IF ~DirExprMatch(p) THEN FALSE
         ELSE LET parts == Split(p, sep)
                  dirs == [i \in 1..Len(parts) |-> DigitsValue(parts[i])]
              IN  CASE Len(dirs) = 1 -> dirs[1] >= mk.year
                    [] Len(dirs) = 2 ->
                         \/ dirs[1] > mk.year
                         \/ dirs[1] = mk.year /\ dirs[2] >= mk.month
                    [] OTHER -> FALSE

\* A mutation of _is_targeted_file: the day compared with > .
IsTargetedFileStrict(comps, mk) ==
    LET p == RelPath(comps) IN
    IF ~FileExprMatch(p) THEN FALSE
    ELSE LET stem == Split(EntryName(comps), ".")[1]
             toks == Split(stem, "-")
             parts == [i \in 1..Len(toks) |-> DigitsValue(toks[i])]
         IN  \/ parts[1] > mk.year
             \/ parts[1] = mk.year /\ parts[2] > mk.month
             \/ parts[1] = mk.year /\ parts[2] = mk.month /\ parts[3] > mk.day

\* NotimonLogScan._is_targeted_file
IsTargetedFile(comps, mk) ==
    LET p == RelPath(comps) IN
    IF ~FileExprMatch(p) THEN FALSE
    ELSE LET stem == Split(EntryName(comps), ".")[1]
             toks == Split(stem, "-")
             parts == [i \in 1..Len(toks) |-> DigitsValue(toks[i])]
         IN  \/ parts[1] > mk.year
             \/ parts[1] = mk.year /\ parts[2] > mk.month
             \/ parts[1] = mk.year /\ parts[2] = mk.month /\ parts[3] >= mk.day

\* os.scandir(path): the entries directly inside the directory `path`.
ChildrenOf(all, path) ==
    {c \in all : Len(c) = Len(path) + 1 /\ SubSeq(c, 1, Len(path)) = path}

\* NotimonLogScan._deep_scan: the files appended to self._files below `path`
\* and the directories descended into, given the tree's dirs and files.
RECURSIVE DeepScan(_, _, _, _, _)
DeepScan(dirs, fileSet, mk, path, depth) ==
    LET down == {d \in ChildrenOf(dirs, path) : IsYearMonthDir(d, depth, mk)}
        here == {f \in ChildrenOf(fileSet, path) : IsTargetedFile(f, mk)}
        sub == [d \in down |-> DeepScan(dirs, fileSet, mk, d, depth + 1)]
    IN  [files |-> here \cup UNION {sub[d].files : d \in down},
         dirs  |-> down \cup UNION {sub[d].dirs : d \in down}]

\* str < str as Python compares: by code point, a proper prefix first.
RECURSIVE StrLess(_, _)
StrLess(a, b) ==
    IF b = <<>> THEN FALSE
    ELSE IF a = <<>> THEN TRUE
    ELSE IF Head(a) = Head(b) THEN StrLess(Tail(a), Tail(b))
    ELSE CharOrd(Head(a)) < CharOrd(Head(b))

\* files.sort(key=lambda entry: entry.path), the scanner's entries being
\* distinct paths (scandir yields them in arbitrary order).
RECURSIVE SortByPath(_)
SortByPath(S) ==
    IF S = {} THEN <<>>
    ELSE LET m == CHOOSE x \in S :
                    \A y \in S \ {x} : StrLess(RelPath(x), RelPath(y))
         IN  <<m>> \o SortByPath(S \ {m})

---------------------------------------------------------------------------
(* LogRecord, CashBookEntry and WooriParser *)

WooriPackage == "com.wooribank.smart.npib"
WooriTitle == "Woori WON Banking ipchulgeum allim"

Deposit == <<"[", "ip", "geum", "]">>
Withdrawal == <<"[", "chul", "geum", "]">>
BalanceWord == <<"jan", "aek">>
Won == "won"
AccountWord == <<"gye", "jwa">>

MinParts == 8

\* CashBookEntry.__init__
CashBookEntry ==
    [path |-> <<>>, timestamp |-> <<>>, package |-> "", title |-> <<>>,
     category |-> <<>>, description |-> <<>>, amount |-> 0,
     account |-> <<>>, balance |-> 0]

\* WooriParser.date_expr: ^\d{2}/\d{2}$
DateExprMatch(s) ==
    /\ Len(s) = 5
    /\ AllIn(SubSeq(s, 1, 2), Digits) /\ s[3] = "/"
    /\ AllIn(SubSeq(s, 4, 5), Digits)

\* WooriParser.time_expr: ^\d{2}:\d{2}:\d{2}$
TimeExprMatch(s) ==
    /\ Len(s) = 8
    /\ AllIn(SubSeq(s, 1, 2), Digits) /\ s[3] = ":"
    /\ AllIn(SubSeq(s, 4, 5), Digits) /\ s[6] = ":"
    /\ AllIn(SubSeq(s, 7, 8), Digits)

\* WooriParser.value_expr: ^[\d,]+won$
ValueExprMatch(s) ==
    /\ Len(s) >= 2
    /\ AllIn(SubSeq(s, 1, Len(s) - 1), Digits \cup {","})
    /\ s[Len(s)] = Won

\* WooriParser.account_expr: ^[\d\-]+\*{3}gyejwa$
AccountExprMatch(s) ==
    /\ Len(s) >= 6
    /\ AllIn(SubSeq(s, 1, Len(s) - 5), Digits \cup {"-"})
    /\ SubSeq(s, Len(s) - 4, Len(s)) = <<"*", "*", "*">> \o AccountWord

\* The outcomes of a call of parse: None, an entry, or an exception.
ParseNone == [kind |-> "none", error |-> "", entry |-> CashBookEntry]
ParseRaise(e) == [kind |-> "raise", error |-> e, entry |-> CashBookEntry]
ParseEntry(e) == [kind |-> "entry", error |-> "", entry |-> e]

\* The guard of line 204, on the split text: "raise" when parts[1] is read
\* from a one-element list, "return" when parse returns None, else "go on".
LengthGuard(parts) ==
    IF ~(Len(parts) < MinParts) THEN "go on"
    ELSE IF parts[1] = Deposit THEN "go on"
    ELSE IF Len(parts) < 2 THEN "raise"
    ELSE IF parts[2] = Withdrawal THEN "go on"
    ELSE "return"

\* factor of line 207
Factor(parts) == IF parts[1] = Deposit THEN 1 ELSE 0 - 1

\* The six format checks of lines 221-237 on the reversed list (rev[k + 1]
\* is parts[k] of the source): "raise" on an index past the end.
SuffixCheck(rev) ==
    IF Len(rev) < 1 THEN "raise"
    ELSE IF ~TimeExprMatch(rev[1]) THEN "return"
    ELSE IF Len(rev) < 2 THEN "raise"
    ELSE IF ~DateExprMatch(rev[2]) THEN "return"
    ELSE IF Len(rev) < 3 THEN "raise"
    ELSE IF ~ValueExprMatch(rev[3]) THEN "return"
    ELSE IF Len(rev) < 4 THEN "raise"
    ELSE IF rev[4] # BalanceWord THEN "return"
    ELSE IF Len(rev) < 5 THEN "raise"
    ELSE IF ~AccountExprMatch(rev[5]) THEN "return"
    ELSE IF Len(rev) < 6 THEN "raise"
    ELSE IF ~ValueExprMatch(rev[6]) THEN "return"
    ELSE "go on"

\* A mutation of the path of lines 242-246: the file named after the entry's
\* own timestamp.
EntryPathOfText(root, timestamp, rev) ==
    PathJoin(PathJoin(root, Replace(PySlice(timestamp, 0, 7), "-", <<sep>>)),
             Replace(PySlice(timestamp, 0, 4) \o <<"-">>
                       \o Replace(rev[2], "/", <<"-">>) \o <<"T">> \o rev[1],
                     ":", <<"-">>) \o <<".", "m", "d">>)

\* entry.path of lines 242-246
EntryPath(root, timestamp, rev) ==
    PathJoin(PathJoin(root, Replace(PySlice(timestamp, 0, 7), "-", <<sep>>)),
             Replace(timestamp, ":", <<"-">>) \o <<".", "m", "d">>)

\* entry.timestamp of line 249
EntryTimestamp(timestamp, rev) ==
    PySlice(timestamp, 0, 4) \o <<"-">> \o Replace(rev[2], "/", <<"-">>)
        \o <<"T">> \o rev[1]

\* ' '.join(parts[-2:5:-1]) of line 252: the reversed list from its last but
\* one element down to index 6.
EntryTitle(rev) ==
    LET n == Len(rev)
        k == IF n > 7 THEN n - 7 ELSE 0
    IN  Join([i \in 1..k |-> rev[n - i]], " ")

\* The digits handed to int() at lines 254 and 256
ValueDigits(tok) == Replace(PySlice(tok, 0, 0 - 1), ",", <<>>)

\* entry.account of line 255
EntryAccount(tok) == PySlice(tok, 0, 0 - 2)

\* A mutation of line 254: the factor left out.
EntryAmountUnsigned(tok, factor) == DigitsValue(ValueDigits(tok))

\* entry.amount of line 254
EntryAmount(tok, factor) == DigitsValue(ValueDigits(tok)) * factor

\* WooriParser.parse
WooriParse(root, record) ==
    IF WooriPackage # record.package \/ WooriTitle # record.title
    THEN ParseNone
    ELSE
    LET parts == Split(record.text, " ")
        guard == LengthGuard(parts)
        rev == Reverse(parts)
        check == SuffixCheck(rev)
    IN  IF guard = "raise" THEN ParseRaise("IndexError")
        ELSE IF guard = "return" THEN ParseNone
        ELSE IF check = "raise" THEN ParseRaise("IndexError")
        ELSE IF check = "return" THEN ParseNone
        ELSE IF IntRaises(ValueDigits(rev[6])) THEN ParseRaise("ValueError")
        ELSE IF IntRaises(ValueDigits(rev[3])) THEN ParseRaise("ValueError")
        ELSE ParseEntry(
               [path        |-> EntryPath(root, record.timestamp, rev),
                timestamp   |-> EntryTimestamp(record.timestamp, rev),
                package     |-> record.package,
                title       |-> EntryTitle(rev),
                category    |-> <<>>,
                description |-> <<>>,
                amount      |-> EntryAmount(rev[6], Factor(parts)),
                account     |-> EntryAccount(rev[5]),
                balance     |-> DigitsValue(ValueDigits(rev[3]))])

\* LogRecord.__init__ on a row of the DictReader
LogRecord(row) ==
    [timestamp |-> row.Timestamp, package |-> row.Package,
     title |-> row.Title, text |-> row.Text]

\* The dispatch by package of lines 269-273
Dispatch(root, r) ==
    IF r.package = WooriPackage THEN WooriParse(root, r) ELSE ParseNone

\* Importer._create_markdown: the eight front-matter values as written.
CreateMarkdown(entry) ==
    [timestamp   |-> entry.timestamp,
     package     |-> entry.package,
     title       |-> entry.title,
     category    |-> entry.category,
     description |-> entry.description,
     amount      |-> IntStr(entry.amount),
     account     |-> entry.account,
     balance     |-> IntStr(entry.balance)]

\* A mutation of line 275: the document written whether it exists or not.
ShouldCreateAlways(docs, result) == result.kind = "entry"

\* The condition of line 275: an entry, and no file at its path.
ShouldCreate(docs, result) ==
    result.kind = "entry" /\ result.entry.path \notin DOMAIN docs

---------------------------------------------------------------------------
(* NotimonLogRead and the import loop *)

\* config.cash_book_path
CashBookPath == <<"/", "b">>

\* entry.name.split('.')[0]: the key of a file in self._found
DateKey(comps) == Split(EntryName(comps), ".")[1]

\* A mutation of lines 161-170: a vanished file read as a file without rows.
ReadFileLenient(fs, entry) ==
    IF entry \notin DOMAIN fs THEN [raise |-> FALSE, rows |-> <<>>]
    ELSE [raise |-> FALSE, rows |-> Tail(fs[entry])]

\* Lines 161-170 for one entry: the exception of line 162, or the rows of
\* the DictReader after next(reader) has discarded the header.
ReadFile(fs, entry) ==
    IF entry \notin DOMAIN fs THEN [raise |-> TRUE, rows |-> <<>>]
    ELSE [raise |-> FALSE, rows |-> Tail(fs[entry])]

\* self._found[name] = rows on an OrderedDict: a present key keeps its place
\* and takes the new value, a new key goes last.
DictPut(fnd, key, rows) ==
    IF \E i \in 1..Len(fnd) : fnd[i].key = key
    THEN [i \in 1..Len(fnd) |->
            IF fnd[i].key = key THEN [key |-> key, rows |-> rows] ELSE fnd[i]]
    ELSE Append(fnd, [key |-> key, rows |-> rows])

NoPos == <<0, 0>>

PosLess(a, b) == a[1] < b[1] \/ (a[1] = b[1] /\ a[2] < b[2])

RowPositions(fnd) ==
    UNION {{<<d, r>> : r \in 1..Len(fnd[d].rows)} : d \in 1..Len(fnd)}

FirstOf(P) ==
    IF P = {} THEN NoPos
    ELSE CHOOSE a \in P : \A b \in P \ {a} : PosLess(a, b)

\* A mutation of the loops: import_to_cashbook returns after the first
\* document it creates, leaving the rest of that date's records.
NextPosReturning(fnd, d, r, created) ==
    FirstOf({a \in RowPositions(fnd) :
               IF created THEN a[1] > d ELSE PosLess(<<d, r>>, a)})

\* The loops of lines 318-319 and 266: the record after record r of date d,
\* whether or not a document was created for it.
NextPos(fnd, d, r, created) ==
    FirstOf({a \in RowPositions(fnd) : PosLess(<<d, r>>, a)})

---------------------------------------------------------------------------
(* The run: import_to_cashbook of lines 296-319 *)

NoRun == [valid |-> FALSE, logs |-> <<>>, book |-> <<>>]

\* Lines 300-308: the marker is loaded, the tree scanned and the result
\* sorted.  Both roots exist (Config).  With no file selected the two loops
\* that follow have nothing to do and the run is complete.
Scan ==
    /\ pc = "start"
    /\ LET mk == Marker(markerFile)
           res == DeepScan(logDirs, DOMAIN logs, mk, <<>>, 1)
           fs == SortByPath(res.files)
       IN  /\ marker' = mk
           /\ entered' = res.dirs
           /\ files' = fs
           /\ pc' = IF fs = <<>> THEN "done" ELSE "read"
    /\ idx' = 1
    /\ found' = <<>>
    /\ UNCHANGED <<markerFile, logDirs, logs, book, bookDirs, runs, di, ri,
                   handled, sawMissing, bookAtStart, lastDone>>

\* One iteration of the loop of NotimonLogRead.read; after the last entry
\* the import loops start at the first record, if there is one.
ReadEntry ==
    /\ pc = "read"
    /\ LET entry == files[idx]
           out == ReadFile(logs, entry)
           fnd == DictPut(found, DateKey(entry), out.rows)
           first == NextPos(fnd, 0, 0, FALSE)
       IN  /\ sawMissing' = (sawMissing \/ entry \notin DOMAIN logs)
           /\ IF out.raise
              THEN /\ pc' = "read_failed"
                   /\ UNCHANGED <<idx, found, di, ri>>
              ELSE /\ found' = fnd
                   /\ idx' = idx + 1
                   /\ IF idx < Len(files)
                      THEN pc' = "read" /\ UNCHANGED <<di, ri>>
                      ELSE /\ pc' = IF first = NoPos THEN "done" ELSE "import"
                           /\ di' = first[1]
                           /\ ri' = first[2]
    /\ UNCHANGED <<markerFile, logDirs, logs, book, bookDirs, runs, marker,
                   entered, files, handled, bookAtStart, lastDone>>

\* One iteration of the loop of Importer.import_to_cashbook: the record is
\* dispatched and parsed and, if line 275 says so, its document is written.
\* An exception of the parser ends the run (lines 323-327).
ImportRow ==
    /\ pc = "import"
    /\ LET row == found[di].rows[ri]
           result == Dispatch(CashBookPath, LogRecord(row))
           create == ShouldCreate(book, result)
           path == result.entry.path
           nxt == NextPos(found, di, ri, create)
       IN  /\ handled' = Append(handled,
                [row |-> row, result |-> result, created |-> create])
           /\ IF result.kind = "raise"
              THEN /\ pc' = "parse_failed"
                   /\ UNCHANGED <<book, bookDirs, di, ri>>
              ELSE /\ book' = IF create
                              THEN [q \in DOMAIN book \cup {path} |->
                                      IF q = path THEN CreateMarkdown(result.entry)
                                      ELSE book[q]]
                              ELSE book
                   /\ bookDirs' = IF create THEN bookDirs \cup {Dirname(path)}
                                  ELSE bookDirs
                   /\ pc' = IF nxt = NoPos THEN "done" ELSE "import"
                   /\ di' = IF nxt = NoPos THEN di ELSE nxt[1]
                   /\ ri' = IF nxt = NoPos THEN ri ELSE nxt[2]
    /\ UNCHANGED <<markerFile, logDirs, logs, runs, marker, entered, files,
                   idx, found, sawMissing, bookAtStart, lastDone>>

\* Another program deletes a scanned log file before the read reaches it
\* (the race of line 161).
ExternalDelete ==
    /\ pc = "read"
    /\ \E k \in idx..Len(files) :
         /\ files[k] \in DOMAIN logs
         /\ logs' = [g \in DOMAIN logs \ {files[k]} |-> logs[g]]
    /\ UNCHANGED <<markerFile, logDirs, book, bookDirs, pc, runs, marker,
                   entered, files, idx, found, di, ri, handled, sawMissing,
                   bookAtStart, lastDone>>

\* The program is started again after a run has ended (exit 0 or exit 1).
NewRun ==
    /\ pc \in {"done", "read_failed", "parse_failed"}
    /\ runs < MaxRuns
    /\ runs' = runs + 1
    /\ pc' = "start"
    /\ lastDone' = IF pc = "done"
                   THEN [valid |-> TRUE, logs |-> logs, book |-> book]
                   ELSE lastDone
    /\ bookAtStart' = book
    /\ sawMissing' = FALSE
    /\ handled' = <<>>
    /\ marker' = Marker(NoFile)
    /\ entered' = {}
    /\ files' = <<>>
    /\ idx' = 1
    /\ found' = <<>>
    /\ di' = 0
    /\ ri' = 0
    /\ UNCHANGED <<markerFile, logDirs, logs, book, bookDirs>>

Next == Scan \/ ReadEntry \/ ImportRow \/ ExternalDelete \/ NewRun

---------------------------------------------------------------------------
(* Inputs: marker files, log trees and rows *)

\* n in decimal, zero-padded to w digits
RECURSIVE Pad(_, _)
Pad(n, w) == IF w = 0 THEN <<>> ELSE Append(Pad(n \div 10, w - 1), DigitChar(n % 10))

DateStr(y, m, d) == Pad(y, 4) \o <<"-">> \o Pad(m, 2) \o <<"-">> \o Pad(d, 2)

CsvName(y, m, d) == DateStr(y, m, d) \o <<".", "c", "s", "v">>

LogFile(dy, dm, y, m, d) == <<Pad(dy, 4), Pad(dm, 2), CsvName(y, m, d)>>

\* The directories a set of files lies in: every proper prefix of a path.
DirsOf(S) == UNION {{SubSeq(f, 1, k) : k \in 1..Len(f) - 1} : f \in S}

\* The subsets of S with at most k elements
RECURSIVE SubsetsUpTo(_, _)
SubsetsUpTo(S, k) ==
    IF k = 0 THEN {{}}
    ELSE LET P == SubsetsUpTo(S, k - 1)
         IN  P \cup {T \cup {x} : T \in P, x \in S}

Header ==
    [Timestamp |-> <<"T">>, Package |-> "Package", Title |-> "Title",
     Text |-> <<"T">>]

\* digits with a comma before every group of three, as the bank prints them
RECURSIVE Grouped(_)
Grouped(ds) ==
    IF Len(ds) <= 3 THEN ds
    ELSE Grouped(SubSeq(ds, 1, Len(ds) - 3)) \o <<",">>
           \o SubSeq(ds, Len(ds) - 2, Len(ds))

ValueTok(a) == Append(Grouped(NatStr(a)), Won)

AccountTok(c) == c \o <<"*", "*", "*">> \o AccountWord

\* The alert text of a transaction: direction, source words, amount, account,
\* balance, date and time.
Encode(d, src, a, c, b, date, time) ==
    Join(<<d>> \o src \o <<ValueTok(a), AccountTok(c), BalanceWord,
                            ValueTok(b), date, time>>, " ")

Row(ts, package, title, text) ==
    [Timestamp |-> ts, Package |-> package, Title |-> title, Text |-> text]

Stamp1 == DateStr(2024, 3, 15) \o <<" ", "0", "9", ":", "3", "0", ":", "0", "0">>
Stamp2 == DateStr(2024, 3, 15) \o <<" ", "0", "9", ":", "3", "0", ":", "0", "5">>
Date1 == <<"0", "3", "/", "1", "5">>
Time1 == <<"0", "9", ":", "3", "0", ":", "0", "0">>
Time2 == <<"0", "9", ":", "3", "0", ":", "0", "1">>
Account1 == <<"1", "1", "0", "-", "1", "2", "3", "-", "4", "5", "6">>
Account2 == <<"1", "0", "0", "2">>
Shop == <<"ga", "ge">>

Directions == {Deposit, Withdrawal}
Sources == {[i \in 1..k |-> Shop] : k \in 0..MaxSourceTokens}
Amounts == {0, 2400, 10000}
Balances == {0, 90000}
Accounts == {Account1, Account2}

\* Tokens that break one field of the grammar each.
BadFirst == {Shop}
BadValues == {<<",", Won>>, <<"2", "4", "0", "0">>}
BadAccounts == {Account2 \o AccountWord}
BadWords == {<<"jan", "go">>}
BadDates == {<<"3", "/", "1", "5">>}

TokenLists ==
    {<<d>> \o src \o <<a, c, w, b, date, Time1>> :
        d \in Directions \cup BadFirst, src \in Sources,
        a \in {ValueTok(x) : x \in Amounts} \cup BadValues,
        c \in {AccountTok(x) : x \in Accounts} \cup BadAccounts,
        w \in {BalanceWord} \cup BadWords,
        b \in {ValueTok(x) : x \in Balances} \cup {<<",", Won>>},
        date \in {Date1} \cup BadDates}

ShortBase ==
    <<Withdrawal, Shop, ValueTok(2400), AccountTok(Account2), BalanceWord,
      ValueTok(90000), Date1, Time1>>

\* Texts cut short: the first k and the last k tokens of a full text.
ShortLists ==
    {SubSeq(ShortBase, 1, k) : k \in 0..Len(ShortBase)} \cup
    {SubSeq(ShortBase, k, Len(ShortBase)) : k \in 1..Len(ShortBase)} \cup
    {<<Deposit>>, <<Shop, Withdrawal>>, <<Shop, Withdrawal, Time1>>}

Texts == {Join(t, " ") : t \in TokenLists \cup ShortLists}

GoodText == Encode(Withdrawal, <<Shop>>, 10000, Account1, 90000, Date1, Time1)

ParseRows ==
    {Row(ts, WooriPackage, WooriTitle, t) : ts \in {Stamp1, Stamp2}, t \in Texts}
    \cup {Row(Stamp1, "com.kakao.talk", WooriTitle, GoodText),
          Row(Stamp1, WooriPackage, "Woori WON Banking", GoodText)}

\* Second rows: another transaction logged at the same second as the first,
\* and the same alert logged at another second.
PairRows ==
    {Row(Stamp1, WooriPackage, WooriTitle,
         Encode(Deposit, <<Shop>>, 2400, Account1, 90000, Date1, Time2)),
     Row(Stamp2, WooriPackage, WooriTitle, GoodText),
     Row(Stamp1, WooriPackage, WooriTitle, GoodText)}

---------------------------------------------------------------------------
(* Specifications *)

\* The state at the start of the first run, given the files on disk.
InitRun(mf, dirs, lg) ==
    /\ markerFile = mf
    /\ logDirs = dirs
    /\ logs = lg
    /\ book = <<>>
    /\ bookDirs = {}
    /\ pc = "start"
    /\ runs = 1
    /\ marker = Marker(NoFile)
    /\ entered = {}
    /\ files = <<>>
    /\ idx = 1
    /\ found = <<>>
    /\ di = 0
    /\ ri = 0
    /\ handled = <<>>
    /\ sawMissing = FALSE
    /\ bookAtStart = <<>>
    /\ lastDone = NoRun

\* -- the scanner on its own: a marker and a tree of header-only files
ScanYears == 2023..2024
ScanMonths == 3..4
ScanDays == 14..15

ScanMarkers ==
    {NoFile, File(<<"2", "0", "2", "4", "-", "3", "-", "1", "5">>),
     File(Append(DateStr(2024, 3, 15), "\n")), File(DateStr(2024, 4, 14)),
     File(DateStr(2023, 4, 15))}

ScanFolders == {<<2023, 4>>, <<2024, 3>>, <<2024, 4>>}

ScanFiles ==
    {LogFile(dir[1], dir[2], y, m, d) :
        dir \in ScanFolders, y \in ScanYears, m \in ScanMonths, d \in ScanDays} \cup
    {<<Pad(2024, 4), Pad(4, 2), <<"x">>, CsvName(2024, 4, 15)>>,
     <<Pad(2024, 4), CsvName(2024, 4, 15)>>,
     <<Pad(2024, 4), Pad(4, 2), DateStr(2024, 4, 15) \o <<".", "t", "x", "t">>>>}

ScanTrees == SubsetsUpTo(ScanFiles, MaxTreeFiles)

\* Directories that are there whether or not they hold a file
ScanDirs ==
    {<<Pad(y, 4)>> : y \in ScanYears} \cup
    {<<Pad(y, 4), Pad(m, 2)>> : y \in ScanYears, m \in ScanMonths} \cup
    {<<Pad(2024, 4), Pad(4, 2), <<"x">>>>, <<Pad(2024, 4), Pad(4, 2), Pad(2024, 4)>>,
     <<<<"x">>>>}

InitScan ==
    \E mf \in ScanMarkers, S \in ScanTrees :
        InitRun(mf, DirsOf(S) \cup ScanDirs, [f \in S |-> <<Header>>])

SpecScan == InitScan /\ [][Scan]_vars

\* -- the parser and the writer on their own: the run has scanned and read
\* one file of one or two rows and is about to import its first record
ParseFile == LogFile(2024, 3, 2024, 3, 15)

ParseInputs ==
    {<<r>> : r \in ParseRows} \cup
    {<<r, q>> : r \in {x \in ParseRows : x.Text = GoodText}, q \in PairRows}

InitParse ==
    \E rows \in ParseInputs :
        /\ markerFile = NoFile
        /\ logDirs = DirsOf({ParseFile})
        /\ logs = [f \in {ParseFile} |-> <<Header>> \o rows]
        /\ book = <<>>
        /\ bookDirs = {}
        /\ pc = "import"
        /\ runs = 1
        /\ marker = Marker(NoFile)
        /\ entered = DirsOf({ParseFile})
        /\ files = <<ParseFile>>
        /\ idx = 2
        /\ found = <<[key |-> DateKey(ParseFile), rows |-> rows]>>
        /\ di = 1
        /\ ri = 1
        /\ handled = <<>>
        /\ sawMissing = FALSE
        /\ bookAtStart = <<>>
        /\ lastDone = NoRun

SpecParse == InitParse /\ [][ImportRow]_vars

\* -- the whole program: up to MaxRuns runs over a small tree
RunFiles ==
    {LogFile(2024, 3, 2024, 3, 14), LogFile(2024, 3, 2024, 3, 15),
     LogFile(2024, 4, 2024, 3, 15)}

RunMarkers == {File(DateStr(2024, 3, 15))}

RunRows == PairRows \cup {Row(Stamp1, WooriPackage, WooriTitle, <<>>)}

\* The rows of rs that lie in file f, in their order
RECURSIVE RowsOf(_, _, _)
RowsOf(rs, where, f) ==
    IF rs = <<>> THEN <<>>
    ELSE (IF Head(where) = f THEN <<Head(rs)>> ELSE <<>>)
           \o RowsOf(Tail(rs), Tail(where), f)

\* Trees of at most MaxLogFiles files holding at most MaxRows rows in all
RunLogs ==
    UNION {UNION {
        {[f \in S |-> <<Header>> \o RowsOf(rs, where, f)] :
            rs \in [1..n -> RunRows], where \in [1..n -> S]}
        : n \in 0..MaxRows}
      : S \in SubsetsUpTo(RunFiles, MaxLogFiles)}

Init ==
    \E mf \in RunMarkers, lg \in RunLogs :
        InitRun(mf, DirsOf(DOMAIN lg), lg)

Spec == Init /\ [][Next]_vars

---------------------------------------------------------------------------
(* Claims about the scanner (SpecScan) *)

\* A daily file: YYYY-MM-DD.csv inside <dir-year>/<dir-month>
IsDaily(f) ==
    /\ Len(f) = 3
    /\ Len(f[1]) = 4 /\ AllIn(f[1], Digits)
    /\ Len(f[2]) = 2 /\ AllIn(f[2], Digits)
    /\ Len(f[3]) = 14 /\ MarkerExprMatch(SubSeq(f[3], 1, 10))
    /\ SubSeq(f[3], 11, 14) = <<".", "c", "s", "v">>

\* The date in the name of a daily file
NameDate(f) ==
    [year  |-> DigitsValue(SubSeq(f[3], 1, 4)),
     month |-> DigitsValue(SubSeq(f[3], 6, 7)),
     day   |-> DigitsValue(SubSeq(f[3], 9, 10))]

\* D >= W by (year, month, day)
DateGeq(D, W) ==
    \/ D.year > W.year
    \/ D.year = W.year /\ D.month > W.month
    \/ D.year = W.year /\ D.month = W.month /\ D.day >= W.day

\* (year, month) of the directory of a daily file >= (W.year, W.month)
DirGeq(f, W) ==
    LET y == DigitsValue(f[1])
        m == DigitsValue(f[2])
    IN  y > W.year \/ (y = W.year /\ m >= W.month)

Returned(f) == \E i \in 1..Len(files) : files[i] = f

Scanned == pc # "start"

\* C1 as stated: after a scan, a daily file is returned if and only if the
\* date of its name is on or after the marker, whatever directory it is in.
C1_AsStated ==
    Scanned =>
        \A f \in DOMAIN logs :
            IsDaily(f) => (Returned(f) <=> DateGeq(NameDate(f), marker))

\* C1 amended: after a scan, a daily file is returned if and only if the date
\* of its name is on or after the marker and its directory (dir-year,
\* dir-month) is not before the marker's (year, month).
C1_ReturnedIffNewAndNotPruned ==
    Scanned =>
        \A f \in DOMAIN logs :
            IsDaily(f) =>
                (Returned(f) <=>
                    (DateGeq(NameDate(f), marker) /\ DirGeq(f, marker)))

\* C1 witness: a scan with a marker that returns a file dated exactly the
\* marker and leaves out a newer file that lies in a pruned directory.
C1_Witness ==
    /\ Scanned
    /\ marker.year > 0
    /\ \E f \in DOMAIN logs :
         IsDaily(f) /\ Returned(f) /\ NameDate(f) = marker
    /\ \E g \in DOMAIN logs :
         IsDaily(g) /\ ~Returned(g) /\ DateGeq(NameDate(g), marker)

\* C8: after a scan, a year directory is entered iff its year is not before
\* the marker's, a month directory iff its (year, month) is not before the
\* marker's, and no directory inside a month directory is entered.
C8_DirectoryPruning ==
    Scanned =>
        \A d \in logDirs :
            /\ (Len(d) = 1 /\ Len(d[1]) = 4 /\ AllIn(d[1], Digits)) =>
                   (d \in entered <=> DigitsValue(d[1]) >= marker.year)
            /\ (/\ Len(d) = 2
                /\ Len(d[1]) = 4 /\ AllIn(d[1], Digits)
                /\ Len(d[2]) = 2 /\ AllIn(d[2], Digits)) =>
                   (d \in entered <=>
                      \/ DigitsValue(d[1]) > marker.year
                      \/ /\ DigitsValue(d[1]) = marker.year
                         /\ DigitsValue(d[2]) >= marker.month)
            /\ Len(d) > 2 => d \notin entered

\* C8 witness: the year before the marker's and the month before the
\* marker's are there and not entered, the marker's month is entered, and a
\* directory inside it is there and not entered.
C8_Witness ==
    /\ Scanned
    /\ <<Pad(marker.year - 1, 4)>> \in logDirs \ entered
    /\ <<Pad(marker.year, 4), Pad(marker.month - 1, 2)>> \in logDirs \ entered
    /\ <<Pad(marker.year, 4), Pad(marker.month, 2)>> \in entered
    /\ \E d \in logDirs \ entered :
         Len(d) = 3 /\ SubSeq(d, 1, 2) = <<Pad(marker.year, 4), Pad(marker.month, 2)>>

---------------------------------------------------------------------------
(* Claims about the parser and the writer (SpecParse) *)

Matched(h) == h.result.kind = "entry"

\* The first token of a text
FirstToken(text) == Split(text, " ")[1]

\* C3 as stated: parse returns an entry or None for every text and never
\* raises.
C3_AsStated ==
    \A i \in DOMAIN handled : handled[i].result.kind \in {"entry", "none"}

\* C7 as stated: a row is matched only if the first token of its text is one
\* of the two direction markers.
C7_AsStated ==
    \A i \in DOMAIN handled :
        Matched(handled[i]) =>
            FirstToken(handled[i].row.Text) \in {Deposit, Withdrawal}

\* <cashbook_root>/<YYYY>/<MM>/<ts with ':' as '-'>.md for a timestamp ts
\* that starts YYYY-MM
PathFor(ts) ==
    CashBookPath \o <<sep>> \o SubSeq(ts, 1, 4) \o <<sep>> \o SubSeq(ts, 6, 7)
      \o <<sep>> \o [i \in 1..Len(ts) |-> IF ts[i] = ":" THEN "-" ELSE ts[i]]
      \o <<".", "m", "d">>

\* C4 as stated: the path of a matched entry is built from the entry's own
\* timestamp, and two matched entries have the same path if and only if they
\* have the same entry timestamp.
C4_AsStated ==
    /\ \A i \in DOMAIN handled :
         Matched(handled[i]) =>
            handled[i].result.entry.path = PathFor(handled[i].result.entry.timestamp)
    /\ \A i, j \in DOMAIN handled :
         (Matched(handled[i]) /\ Matched(handled[j])) =>
            (handled[i].result.entry.path = handled[j].result.entry.path
               <=> handled[i].result.entry.timestamp = handled[j].result.entry.timestamp)

\* C4 amended: the path of a matched entry is built from the row's log
\* timestamp column (YYYY-MM-DD HH:MM:SS), and two matched entries have the
\* same path if and only if their rows have the same log timestamp.
C4_PathFromLogTimestamp ==
    /\ \A i \in DOMAIN handled :
         Matched(handled[i]) =>
            handled[i].result.entry.path = PathFor(handled[i].row.Timestamp)
    /\ \A i, j \in DOMAIN handled :
         (Matched(handled[i]) /\ Matched(handled[j])) =>
            (handled[i].result.entry.path = handled[j].result.entry.path
               <=> handled[i].row.Timestamp = handled[j].row.Timestamp)

\* C4 witness: two rows are matched, logged at the same second, whose alert
\* texts give different entry timestamps.
C4_Witness ==
    \E i, j \in DOMAIN handled :
        /\ Matched(handled[i]) /\ Matched(handled[j])
        /\ handled[i].row.Timestamp = handled[j].row.Timestamp
        /\ handled[i].result.entry.timestamp # handled[j].result.entry.timestamp

\* The document written for handled row h
DocOf(h) == book[h.result.entry.path]

Sign(d) == IF d = Deposit THEN 1 ELSE 0 - 1

\* C5 as stated: the document written for a well-formed row has the amount
\* with the sign of the direction, the balance, and the account without its
\* mask and label.
C5_AsStated ==
    \A i \in DOMAIN handled :
        handled[i].created =>
            \A d \in Directions, src \in Sources, a \in Amounts, c \in Accounts,
               b \in Balances, time \in {Time1, Time2} :
                handled[i].row.Text = Encode(d, src, a, c, b, Date1, time) =>
                    /\ DocOf(handled[i]).amount = IntStr(Sign(d) * a)
                    /\ DocOf(handled[i]).balance = IntStr(b)
                    /\ DocOf(handled[i]).account = c

\* C5 amended: the document written for a well-formed row has the amount
\* with the sign of the direction, the balance, and the account with its
\* label removed and its mask *** kept.
C5_RoundTripKeepsMask ==
    \A i \in DOMAIN handled :
        handled[i].created =>
            \A d \in Directions, src \in Sources, a \in Amounts, c \in Accounts,
               b \in Balances, time \in {Time1, Time2} :
                handled[i].row.Text = Encode(d, src, a, c, b, Date1, time) =>
                    /\ DocOf(handled[i]).amount = IntStr(Sign(d) * a)
                    /\ DocOf(handled[i]).balance = IntStr(b)
                    /\ DocOf(handled[i]).account = c \o <<"*", "*", "*">>

\* C5 witness: a document was written for a well-formed withdrawal of a
\* positive amount.
C5_Witness ==
    \E i \in DOMAIN handled :
        /\ handled[i].created
        /\ \E src \in Sources, a \in Amounts \ {0}, c \in Accounts, b \in Balances :
             handled[i].row.Text = Encode(Withdrawal, src, a, c, b, Date1, Time1)

---------------------------------------------------------------------------
(* Claims about the whole run (Spec) *)

EntryAt(i) == handled[i].result.entry

\* C2: a run that completes after a completed run, with the log files as
\* they were, leaves the set of cashbook documents as it was.
C2_SecondRunAddsNothing ==
    (pc = "done" /\ lastDone.valid /\ lastDone.logs = logs) =>
        DOMAIN book = DOMAIN lastDone.book

\* C2 witness: a second run has completed on unchanged logs, with documents
\* in the cashbook.
C2_Witness ==
    /\ pc = "done" /\ runs = 2 /\ handled # <<>>
    /\ lastDone.valid /\ lastDone.logs = logs
    /\ DOMAIN book # {}

\* C6: a document is never overwritten: every document there when the run
\* started is unchanged, and every document written in the run is that of
\* the first row handled in the run that maps to its path.
C6_NeverOverwritten ==
    /\ \A q \in DOMAIN bookAtStart :
         q \in DOMAIN book /\ book[q] = bookAtStart[q]
    /\ \A q \in DOMAIN book \ DOMAIN bookAtStart :
         \E i \in DOMAIN handled :
            /\ Matched(handled[i]) /\ EntryAt(i).path = q
            /\ \A j \in 1..i - 1 : ~(Matched(handled[j]) /\ EntryAt(j).path = q)
            /\ book[q] = CreateMarkdown(EntryAt(i))

\* C6 witness: two rows of different content that map to one path have been
\* handled, in a run that found the document of the first already there.
C6_Witness ==
    /\ runs = 2
    /\ \E i, j \in DOMAIN handled :
         /\ i < j /\ Matched(handled[i]) /\ Matched(handled[j])
         /\ EntryAt(i).path = EntryAt(j).path
         /\ CreateMarkdown(EntryAt(i)) # CreateMarkdown(EntryAt(j))
         /\ EntryAt(i).path \in DOMAIN bookAtStart

\* C9: no document is written before the read has completed, and a scanned
\* file that is gone when the read reaches it ends the run with the cashbook
\* as it was when the run started.
C9_MissingFileAbortsBeforeWrite ==
    /\ sawMissing => pc = "read_failed"
    /\ pc \in {"start", "read", "read_failed"} => book = bookAtStart

\* C9 witness: the read has failed on a missing file after an earlier file
\* with a matching row was read.
C9_Witness ==
    /\ pc = "read_failed" /\ sawMissing
    /\ idx > 1
    /\ \E k \in 1..Len(found), r \in PairRows :
         \E n \in 1..Len(found[k].rows) : found[k].rows[n] = r

\* The rows of the files of fs, file after file
RECURSIVE RowsOfFiles(_)
RowsOfFiles(fs) ==
    IF fs = <<>> THEN <<>> ELSE Tail(logs[Head(fs)]) \o RowsOfFiles(Tail(fs))

\* C10 as stated: a completed run has handed every row of every scanned file
\* to the importer once, files in path order and rows in file order.
C10_AsStated ==
    (pc = "done" /\ \A i \in 1..Len(files) : files[i] \in DOMAIN logs) =>
        [i \in 1..Len(handled) |-> handled[i].row] = RowsOfFiles(files)

====
